---- MODULE Spec2Model ----
(***************************************************************************)
(* A model of tarot_ledger.py: the TarotLedger object (load, save,         *)
(* add_entry, entries, entries_in_range, card_frequency) bound to one      *)
(* JSON store, and the add / list / summary commands built on it.          *)
(*                                                                         *)
(* Strings that the code compares or parses (the dates) are sequences of   *)
(* one-character strings, so that str ordering and strptime are computed   *)
(* as Python computes them.  Other strings (question, spread, notes,       *)
(* card names) are only copied and compared for equality, and are plain    *)
(* TLA+ strings.                                                           *)
(*                                                                         *)
(* Spec is the ledger object and its caller, on a file that may hold       *)
(* anything; CommandSpec is the three commands run on such a file.         *)
(***************************************************************************)
EXTENDS Integers, Sequences, FiniteSets, TLC

\* ------------------------------------------------------------------------
\* Bounds of the model
\* ------------------------------------------------------------------------

\* The largest number of entries a ledger holds in the model.
MaxEntries == 3

\* The largest number of records in a store given from outside.
MaxStoreRecords == 2

\* ------------------------------------------------------------------------
\* str: ordering of characters and of strings
\* ------------------------------------------------------------------------

\* The characters used, in code point order ("-" is 45, digits 48..57,
\* "x" is 120).
Alphabet == <<"-", "0", "1", "2", "3", "4", "5", "6", "7", "8", "9", "x">>

\* The place of each character in that order.
Place == [c \in { Alphabet[i] : i \in 1..Len(Alphabet) } |->
             CHOOSE i \in 1..Len(Alphabet) : Alphabet[i] = c]

Ord(c) == Place[c]

IsDigit(c) == Ord(c) >= Ord("0") /\ Ord(c) <= Ord("9")

DigitVal(c) == Ord(c) - Ord("0")

\* Python's a < b on str: the first differing character decides, a proper
\* prefix is smaller.
RECURSIVE StrLess(_, _)
StrLess(a, b) ==
    IF b = <<>> THEN FALSE
    ELSE IF a = <<>> THEN TRUE
    ELSE IF Head(a) = Head(b) THEN StrLess(Tail(a), Tail(b))
    ELSE Ord(Head(a)) < Ord(Head(b))

\* ------------------------------------------------------------------------
\* datetime: strptime(s, "%Y-%m-%d").date(), date ordering, isoformat
\* ------------------------------------------------------------------------

NoDate == <<>>

IsLeap(y) == (y % 4 = 0) /\ ((y % 100 # 0) \/ (y % 400 = 0))

DaysInMonth(y, m) ==
    IF m = 2 THEN (IF IsLeap(y) THEN 29 ELSE 28)
    ELSE IF m \in {4, 6, 9, 11} THEN 30
    ELSE 31

\* %m is 1[0-2]|0[1-9]|[1-9] ; the value, or 0 when the text does not match.
MonthField(t) ==
    IF Len(t) = 1 /\ IsDigit(t[1]) /\ t[1] # "0" THEN DigitVal(t[1])
    ELSE IF Len(t) = 2 /\ t[1] = "1" /\ t[2] \in {"0", "1", "2"}
         THEN 10 + DigitVal(t[2])
    ELSE IF Len(t) = 2 /\ t[1] = "0" /\ IsDigit(t[2]) /\ t[2] # "0"
         THEN DigitVal(t[2])
    ELSE 0

\* %d is 3[01]|[12]\d|0[1-9]|[1-9] ; the value, or 0 when the text does not
\* match.
DayField(t) ==
    IF Len(t) = 1 /\ IsDigit(t[1]) /\ t[1] # "0" THEN DigitVal(t[1])
    ELSE IF Len(t) = 2 /\ t[1] = "3" /\ t[2] \in {"0", "1"}
         THEN 30 + DigitVal(t[2])
    ELSE IF Len(t) = 2 /\ t[1] \in {"1", "2"} /\ IsDigit(t[2])
         THEN 10 * DigitVal(t[1]) + DigitVal(t[2])
    ELSE IF Len(t) = 2 /\ t[1] = "0" /\ IsDigit(t[2]) /\ t[2] # "0"
         THEN DigitVal(t[2])
    ELSE 0

\* datetime.strptime(s, "%Y-%m-%d").date(): <<year, month, day>>, or NoDate
\* where strptime raises ValueError (the text does not match the format, text
\* is left over, or the day is not a day of that month).
strptime(s) ==
    IF Len(s) < 8 \/ Len(s) > 10 THEN NoDate
    ELSE IF ~(\A i \in 1..4 : IsDigit(s[i])) \/ s[5] # "-" THEN NoDate
    ELSE
      LET y    == 1000 * DigitVal(s[1]) + 100 * DigitVal(s[2])
                  + 10 * DigitVal(s[3]) + DigitVal(s[4])
          dash == IF s[7] = "-" THEN 7 ELSE 8
          m    == MonthField(SubSeq(s, 6, dash - 1))
          d    == DayField(SubSeq(s, dash + 1, Len(s)))
      IN IF s[dash] # "-" \/ m = 0 \/ d = 0 THEN NoDate
         ELSE IF y < 1 \/ d > DaysInMonth(y, m) THEN NoDate
         ELSE <<y, m, d>>

\* a < b on datetime.date values.
DateLess(a, b) ==
    \/ a[1] < b[1]
    \/ a[1] = b[1] /\ a[2] < b[2]
    \/ a[1] = b[1] /\ a[2] = b[2] /\ a[3] < b[3]

DigitChar(n) == Alphabet[Ord("0") + n]

\* date.isoformat(): YYYY-MM-DD, zero padded.
isoformat(dt) ==
    << DigitChar(dt[1] \div 1000), DigitChar((dt[1] \div 100) % 10),
       DigitChar((dt[1] \div 10) % 10), DigitChar(dt[1] % 10), "-",
       DigitChar(dt[2] \div 10), DigitChar(dt[2] % 10), "-",
       DigitChar(dt[3] \div 10), DigitChar(dt[3] % 10) >>

\* ------------------------------------------------------------------------
\* TarotEntry
\* ------------------------------------------------------------------------

\* The fields of the dataclass TarotEntry, in declaration order.
FieldNames == {"date", "question", "cards", "spread", "notes"}

\* TarotEntry(date=..., question=..., cards=..., spread=..., notes=...): the
\* dataclass stores what it is given; it has no __post_init__.
TarotEntry(date, question, cards, spread, notes) ==
    [date |-> date, question |-> question, cards |-> cards,
     spread |-> spread, notes |-> notes]

\* payload.get(key, default) on a dict.
get(payload, key, default) ==
    IF key \in DOMAIN payload THEN payload[key] ELSE default

\* from_payload reading the key "note" where the file has "notes".
from_payload_note_key(payload) ==
    TarotEntry(payload["date"], payload["question"],
               get(payload, "cards", <<>>), get(payload, "spread", ""),
               get(payload, "note", ""))

\* TarotEntry.from_payload(payload), for a payload that has the keys "date"
\* and "question" (PayloadError below says what is raised otherwise).
from_payload(payload) ==
    TarotEntry(payload["date"], payload["question"],
               get(payload, "cards", <<>>), get(payload, "spread", ""),
               get(payload, "notes", ""))

\* dataclasses.asdict(entry): a dict with one key per field.
asdict(entry) == [k \in FieldNames |-> entry[k]]

\* ------------------------------------------------------------------------
\* The store: the file at self.path
\* ------------------------------------------------------------------------
\* The content of the file is modelled by the value json.loads gives for it:
\*   [t |-> "absent"]                  no file at the path
\*   [t |-> "garbage"]                 text that is not JSON (also empty or
\*                                     cut-off text)
\*   [t |-> "number"]                  the JSON text of a number
\*   [t |-> "object", keys |-> n]      a JSON object with n keys
\*   [t |-> "array", items |-> <<..>>] a JSON array; an item is
\*       [t |-> "object", m |-> dict]  or  [t |-> "number"]

Absent  == [t |-> "absent"]
Garbage == [t |-> "garbage"]

\* json.dumps(data, indent=2, ensure_ascii=False) for a list of dicts, as the
\* document it denotes.
dumps(data) ==
    [t |-> "array",
     items |-> [i \in 1..Len(data) |-> [t |-> "object", m |-> data[i]]]]

\* What TarotEntry.from_payload(item) raises: indexing a non-dict with a str
\* is a TypeError, a missing "date" or "question" key is a KeyError.
PayloadError(item) ==
    IF item.t # "object" THEN "TypeError"
    ELSE IF ~({"date", "question"} \subseteq DOMAIN item.m) THEN "KeyError"
    ELSE "none"

\* TarotLedger._load on file content `file`; io = "fail" is an OSError while
\* reading.  Gives the exception that leaves _load ("none" when it returns)
\* and the value of self._entries.
_load(file, io) ==
    IF file.t = "absent" THEN [raised |-> "none", entries |-> <<>>]
    ELSE IF io = "fail" \/ file.t = "garbage"
         THEN [raised |-> "RuntimeError", entries |-> <<>>]
    ELSE IF file.t = "number"
         THEN [raised |-> "TypeError", entries |-> <<>>]
    ELSE IF file.t = "object"
         THEN [raised |-> IF file.keys = 0 THEN "none" ELSE "TypeError",
               entries |-> <<>>]
    ELSE IF \E i \in 1..Len(file.items) : PayloadError(file.items[i]) # "none"
         THEN LET i == CHOOSE j \in 1..Len(file.items) :
                         /\ PayloadError(file.items[j]) # "none"
                         /\ \A k \in 1..(j - 1) :
                                PayloadError(file.items[k]) = "none"
              IN [raised |-> PayloadError(file.items[i]), entries |-> <<>>]
    ELSE [raised |-> "none",
          entries |-> [i \in 1..Len(file.items) |->
                          from_payload(file.items[i].m)]]

\* TarotLedger.save: the content of the file afterwards and the exception.
\* Path.write_text opens the file for writing (truncating it) and writes:
\* w = "ok", w = "open_fails" (OSError before the file is changed) or
\* w = "write_fails" (OSError after the file was truncated).
save(entries, file, w) ==
    LET data == [i \in 1..Len(entries) |-> asdict(entries[i])]
    IN CASE w = "ok"          -> [raised |-> "none", file |-> dumps(data)]
         [] w = "open_fails"  -> [raised |-> "OSError", file |-> file]
         [] w = "write_fails" -> [raised |-> "OSError", file |-> Garbage]

\* ------------------------------------------------------------------------
\* TarotLedger: the operations on self._entries
\* ------------------------------------------------------------------------

\* One step of the stable sort on key e.date: x goes before the first
\* element whose key is greater than its own.
RECURSIVE insort(_, _)
insort(s, x) ==
    IF s = <<>> THEN <<x>>
    ELSE IF StrLess(x.date, Head(s).date) THEN <<x>> \o s
    ELSE <<Head(s)>> \o insort(Tail(s), x)

\* list.sort(key=lambda e: e.date): stable, ascending on the str key.
RECURSIVE sort(_)
sort(s) ==
    IF s = <<>> THEN <<>>
    ELSE insort(sort(SubSeq(s, 1, Len(s) - 1)), s[Len(s)])

\* add_entry that leaves out an entry equal to one it holds.
append_sort_unique(entries, entry) ==
    IF \E i \in 1..Len(entries) : entries[i] = entry THEN entries
    ELSE sort(Append(entries, entry))

\* The list after the first two statements of add_entry.
append_sort(entries, entry) == sort(Append(entries, entry))

\* entries returning self._entries itself.
entries_alias(self_entries) == [ref |-> "self._entries", items |-> self_entries]

\* TarotLedger.entries: list(self._entries) is a new list object holding the
\* same elements.
entries(self_entries) == [ref |-> "new list", items |-> self_entries]

\* TarotLedger.entries_in_range, iterated to its end: the entries yielded and
\* the exception that ends the iteration ("none" when it is exhausted).
\* start and end are dates or NoDate for None.
RECURSIVE entries_in_range(_, _, _)
entries_in_range(es, start, end) ==
    IF es = <<>> THEN [raised |-> "none", yielded |-> <<>>]
    ELSE LET entry_date == strptime(Head(es).date)
         IN IF entry_date = NoDate
            THEN [raised |-> "ValueError", yielded |-> <<>>]
            ELSE LET rest == entries_in_range(Tail(es), start, end)
                 IN IF \/ start # NoDate /\ DateLess(entry_date, start)
                       \/ end # NoDate /\ DateLess(end, entry_date)
                    THEN rest
                    ELSE [raised |-> rest.raised,
                          yielded |-> <<Head(es)>> \o rest.yielded]

\* A Counter: the keys in the order of their first insertion, and the count
\* of each.
EmptyCounter == [keys |-> <<>>, n |-> <<>>]

\* counter[c] += 1
Inc(counter, c) ==
    IF c \in DOMAIN counter.n
    THEN [counter EXCEPT !.n = [@ EXCEPT ![c] = @ + 1]]
    ELSE [keys |-> Append(counter.keys, c), n |-> counter.n @@ (c :> 1)]

\* update counting every card of an entry once: update(set(cards)).
RECURSIVE update_distinct(_, _)
update_distinct(counter, cards) ==
    IF cards = <<>> THEN counter
    ELSE LET Other(c) == c # Head(cards)
         IN update_distinct(Inc(counter, Head(cards)), SelectSeq(Tail(cards), Other))

\* Counter.update(iterable)
RECURSIVE update(_, _)
update(counter, cards) ==
    IF cards = <<>> THEN counter
    ELSE update(Inc(counter, Head(cards)), Tail(cards))

RECURSIVE CountInto(_, _)
CountInto(counter, es) ==
    IF es = <<>> THEN counter
    ELSE CountInto(update(counter, Head(es).cards), Tail(es))

\* TarotLedger.card_frequency
card_frequency(self_entries) == CountInto(EmptyCounter, self_entries)

\* add_entry that takes the entry out again when save raises.
add_entry_rollback(self_entries, file, entry, w) ==
    LET after == append_sort(self_entries, entry)
        s     == save(after, file, w)
    IN [entries |-> IF s.raised = "none" THEN after ELSE self_entries,
        file |-> s.file, raised |-> s.raised]

\* TarotLedger.add_entry as a whole: append, sort, save.  The list is changed
\* before save is called, and an exception of save leaves it changed.
add_entry(self_entries, file, entry, w) ==
    LET after == append_sort(self_entries, entry)
        s     == save(after, file, w)
    IN [entries |-> after, file |-> s.file, raised |-> s.raised]

\* ------------------------------------------------------------------------
\* The command surface
\* ------------------------------------------------------------------------

Whitespace == {" "}

\* str.split(","): the pieces between the commas.
RECURSIVE split(_, _)
split(raw, piece) ==
    IF raw = <<>> THEN <<piece>>
    ELSE IF Head(raw) = "," THEN <<piece>> \o split(Tail(raw), <<>>)
    ELSE split(Tail(raw), Append(piece, Head(raw)))

\* str.strip(): without the whitespace at both ends.
RECURSIVE strip(_)
strip(t) ==
    IF t = <<>> THEN <<>>
    ELSE IF Head(t) \in Whitespace THEN strip(Tail(t))
    ELSE IF t[Len(t)] \in Whitespace THEN strip(SubSeq(t, 1, Len(t) - 1))
    ELSE t

\* parse_cards(raw_cards)
parse_cards(raw_cards) ==
    IF raw_cards = <<>> THEN <<>>
    ELSE LET pieces == split(raw_cards, <<>>)
             IsCard(t) == strip(t) # <<>>
             kept == SelectSeq(pieces, IsCard)
         IN [i \in 1..Len(kept) |-> strip(kept[i])]

\* parse_date(raw_date): None and "" are <<>>; today is date.today().  Gives
\* the str returned, or raised = "ArgumentTypeError".
parse_date(raw_date, today) ==
    IF raw_date = <<>> THEN [raised |-> "none", date |-> isoformat(today)]
    ELSE LET parsed == strptime(raw_date)
         IN IF parsed = NoDate
            THEN [raised |-> "ArgumentTypeError", date |-> <<>>]
            ELSE [raised |-> "none", date |-> isoformat(parsed)]

\* entry_from_args(args), where parse_date returns (args.notes is a str, ""
\* by default, so `args.notes or ""` is args.notes).
entry_from_args(args, today) ==
    TarotEntry(parse_date(args.date, today).date, args.question,
               parse_cards(args.cards), args.spread, args.notes)

\* One step of sorted(items, key=count, reverse=True): stable, so a key goes
\* before the first key with a smaller count.
RECURSIVE insert_desc(_, _, _)
insert_desc(s, c, n) ==
    IF s = <<>> THEN <<c>>
    ELSE IF n[Head(s)] < n[c] THEN <<c>> \o s
    ELSE <<Head(s)>> \o insert_desc(Tail(s), c, n)

RECURSIVE sorted_desc(_, _)
sorted_desc(keys, n) ==
    IF keys = <<>> THEN <<>>
    ELSE insert_desc(sorted_desc(SubSeq(keys, 1, Len(keys) - 1), n),
                     keys[Len(keys)], n)

\* Counter.most_common(k): the k keys with the largest counts, ties in the
\* order of first insertion, each with its count.
most_common(counter, k) ==
    LET order == sorted_desc(counter.keys, counter.n)
        top   == SubSeq(order, 1, IF Len(order) < k THEN Len(order) ELSE k)
    IN [i \in 1..Len(top) |-> <<top[i], counter.n[top[i]]>>]

\* ------------------------------------------------------------------------
\* Inputs
\* ------------------------------------------------------------------------

\* "2024-01-15", "2024-03-01", "2024-10-01": canonical dates.
Jan15 == <<"2", "0", "2", "4", "-", "0", "1", "-", "1", "5">>
Mar01 == <<"2", "0", "2", "4", "-", "0", "3", "-", "0", "1">>
Oct01 == <<"2", "0", "2", "4", "-", "1", "0", "-", "0", "1">>
\* "2024-3-01": the first of March, not zero padded (strptime accepts it).
Mar1  == <<"2", "0", "2", "4", "-", "3", "-", "0", "1">>
\* "2024-02-30": not a calendar date.
Feb30 == <<"2", "0", "2", "4", "-", "0", "2", "-", "3", "0">>

CardA == <<"A">>
CardB == <<"B">>
Carda == <<"a">>

\* The entries a caller passes to add_entry.  The first two share a date.
Entry1 == TarotEntry(Jan15, "q1", <<CardA, CardB, CardA>>, "Three Card", "n")
Entry2 == TarotEntry(Jan15, "q2", <<CardA>>, "", "")
Entry3 == TarotEntry(Oct01, "q1", <<Carda, CardB>>, "Three Card", "")
Entry4 == TarotEntry(Mar1, "q2", <<>>, "", "n")
Entry5 == TarotEntry(Feb30, "q1", <<CardB>>, "", "")

EntryPool == { Entry1, Entry2, Entry3, Entry4, Entry5 }

Record(entry) == [t |-> "object", m |-> asdict(entry)]

\* The items of a JSON array found in a store that this program did not
\* necessarily write: full records, a record with only the required keys, a
\* record without "date", and an item that is no record.
StoreItems ==
    { Record(Entry2), Record(Entry3), Record(Entry5),
      [t |-> "object", m |-> [date |-> Mar01, question |-> "q2"]],
      [t |-> "object", m |-> [question |-> "q1"]],
      [t |-> "number"] }

SeqsUpTo(S, n) == UNION { [1..k -> S] : k \in 0..n }

\* What the file at the path holds when the program starts.
InitialStores ==
    { Absent, Garbage, [t |-> "number"],
      [t |-> "object", keys |-> 0], [t |-> "object", keys |-> 1] }
    \cup { [t |-> "array", items |-> s] : s \in SeqsUpTo(StoreItems, MaxStoreRecords) }

\* Stores at the start of a command.
CommandStores ==
    { Absent, Garbage }
    \cup { [t |-> "array", items |-> s] : s \in SeqsUpTo(StoreItems, 1) }

\* The bounds given to entries_in_range (NoDate is None).
RangeBounds == { NoDate, <<2024, 3, 1>> }

\* --date of add, --from and --to of list (<<>> is an option not given).
DateArgs == { <<>>, Mar1, Feb30 }

\* The other arguments of add: --cards " A, ,B" with the default spread.
AddArgs ==
    { [question |-> "q1", cards |-> <<" ", "A", ",", " ", ",", "B">>,
       spread |-> "Three Card", notes |-> ""] }

\* date.today() on the runs of the model.
Todays == { <<2024, 10, 1>> }

ReadOutcomes  == { "ok", "fail" }
WriteOutcomes == { "ok", "open_fails", "write_fails" }

\* ------------------------------------------------------------------------
\* State
\* ------------------------------------------------------------------------

VARIABLES
    store,     \* the content of the file at the path
    ledger,    \* "none": no TarotLedger object; "loaded": one exists
    _entries,  \* self._entries of the TarotLedger object
    snapshot,  \* the list that entries() returned, while the caller holds it:
               \* until the next call of the ledger
    call,      \* the last call: its name and arguments
    raised,    \* the exception that left it, "none" when it returned
    ret,       \* what it returned or printed
    trace      \* what it did with the ledger and the file, in order

vars == <<store, ledger, _entries, snapshot, call, raised, ret, trace>>

NoSnapshot == [ref |-> "none", items |-> <<>>]
NoRet == [kind |-> "none"]

Init ==
    /\ store \in InitialStores
    /\ ledger = "none"
    /\ _entries = <<>>
    /\ snapshot = NoSnapshot
    /\ call = [name |-> "start"]
    /\ raised = "none"
    /\ ret = NoRet
    /\ trace = <<>>

\* What the file operations of a call leave in trace.
LoadTrace(file) == IF file.t = "absent" THEN <<"construct">> ELSE <<"construct", "read">>

\* ------------------------------------------------------------------------
\* The TarotLedger object, called directly
\* ------------------------------------------------------------------------

\* ledger = TarotLedger(path): an exception of _load leaves __init__, and no
\* object results.
Construct(io) ==
    LET r == _load(store, io)
    IN /\ ledger' = IF r.raised = "none" THEN "loaded" ELSE "none"
       /\ _entries' = r.entries
       /\ raised' = r.raised
       /\ call' = [name |-> "TarotLedger"]
       /\ ret' = NoRet
       /\ trace' = LoadTrace(store)
       /\ snapshot' = NoSnapshot
       /\ UNCHANGED store

\* ledger.save()
Save(w) ==
    /\ ledger = "loaded"
    /\ LET s == save(_entries, store, w)
       IN /\ store' = s.file
          /\ raised' = s.raised
    /\ call' = [name |-> "save"]
    /\ ret' = NoRet
    /\ trace' = <<"write">>
    /\ snapshot' = NoSnapshot
    /\ UNCHANGED <<ledger, _entries>>

\* ledger.add_entry(entry)
AddEntry(entry, w) ==
    /\ ledger = "loaded"
    /\ Len(_entries) < MaxEntries
    /\ LET r == add_entry(_entries, store, entry, w)
       IN /\ _entries' = r.entries
          /\ store' = r.file
          /\ raised' = r.raised
    /\ call' = [name |-> "add_entry", entry |-> entry]
    /\ ret' = NoRet
    /\ trace' = <<"write">>
    /\ snapshot' = NoSnapshot
    /\ UNCHANGED ledger

\* xs = ledger.entries()
Entries ==
    /\ ledger = "loaded"
    /\ snapshot' = entries(_entries)
    /\ ret' = [kind |-> "list", items |-> entries(_entries).items]
    /\ call' = [name |-> "entries"]
    /\ raised' = "none"
    /\ trace' = <<>>
    /\ UNCHANGED <<store, ledger, _entries>>

\* What the caller does to the list xs that entries() returned.
Mutations == { "clear", "pop", "reverse", "append" }

mutate(xs, how, entry) ==
    CASE how = "clear"   -> <<>>
      [] how = "pop"     -> SubSeq(xs, 1, Len(xs) - 1)
      [] how = "reverse" -> [i \in 1..Len(xs) |-> xs[Len(xs) + 1 - i]]
      [] how = "append"  -> Append(xs, entry)

\* xs.clear(), xs.pop(), xs.reverse(), xs.append(entry): a list object that is
\* self._entries itself changes self._entries, a new list does not.
CallerMutates(how, entry) ==
    /\ snapshot.ref # "none"
    /\ call.name = "entries"
    /\ how = "pop" => snapshot.items # <<>>
    /\ snapshot' = [snapshot EXCEPT !.items = mutate(@, how, entry)]
    /\ _entries' = IF snapshot.ref = "self._entries"
                   THEN mutate(snapshot.items, how, entry)
                   ELSE _entries
    /\ call' = [name |-> "caller mutates", how |-> how]
    /\ raised' = "none"
    /\ ret' = NoRet
    /\ trace' = <<>>
    /\ UNCHANGED <<store, ledger>>

\* list(ledger.entries_in_range(start, end))
EntriesInRange(start, end) ==
    /\ ledger = "loaded"
    /\ LET r == entries_in_range(_entries, start, end)
       IN /\ ret' = [kind |-> "list", items |-> r.yielded]
          /\ raised' = r.raised
    /\ call' = [name |-> "entries_in_range", start |-> start, end |-> end]
    /\ trace' = <<>>
    /\ snapshot' = NoSnapshot
    /\ UNCHANGED <<store, ledger, _entries>>

\* ledger.card_frequency()
CardFrequency ==
    /\ ledger = "loaded"
    /\ ret' = [kind |-> "counter", counter |-> card_frequency(_entries)]
    /\ call' = [name |-> "card_frequency"]
    /\ raised' = "none"
    /\ trace' = <<>>
    /\ snapshot' = NoSnapshot
    /\ UNCHANGED <<store, ledger, _entries>>

\* ------------------------------------------------------------------------
\* The commands: each runs in a process of its own, with a TarotLedger object
\* of its own that is gone when the command ends
\* ------------------------------------------------------------------------

\* What list_command prints for one entry.
Printed(entry) ==
    [date |-> entry.date,
     spread |-> IF entry.spread = "" THEN "Spread" ELSE entry.spread,
     question |-> entry.question, cards |-> entry.cards, notes |-> entry.notes]

\* add_command(args): the ledger is built first, then the arguments are
\* read, then the entry is added.
add_command(file, args, today, io, w) ==
    LET l == _load(file, io)
        d == parse_date(args.date, today)
    IN IF l.raised # "none"
       THEN [raised |-> l.raised, file |-> file, trace |-> LoadTrace(file),
             printed |-> <<>>]
       ELSE IF d.raised # "none"
       THEN [raised |-> d.raised, file |-> file, trace |-> LoadTrace(file),
             printed |-> <<>>]
       ELSE LET entry == entry_from_args(args, today)
                r     == add_entry(l.entries, file, entry, w)
            IN [raised |-> r.raised, file |-> r.file,
                trace |-> LoadTrace(file) \o <<"write">>,
                printed |-> IF r.raised = "none"
                            THEN <<[added |-> entry.date,
                                    ncards |-> Len(entry.cards)]>>
                            ELSE <<>>]

\* list_command(args)
list_command(file, args, io) ==
    LET l     == _load(file, io)
        start == IF args.date_from = <<>> THEN NoDate ELSE strptime(args.date_from)
        end   == IF args.date_to = <<>> THEN NoDate ELSE strptime(args.date_to)
    IN IF l.raised # "none"
       THEN [raised |-> l.raised, trace |-> LoadTrace(file), printed |-> <<>>]
       ELSE IF \/ args.date_from # <<>> /\ start = NoDate
               \/ args.date_to # <<>> /\ end = NoDate
       THEN [raised |-> "ValueError", trace |-> LoadTrace(file), printed |-> <<>>]
       ELSE LET r == entries_in_range(l.entries, start, end)
            IN [raised |-> r.raised, trace |-> LoadTrace(file),
                printed |-> IF r.raised # "none" THEN <<>>
                            ELSE IF r.yielded = <<>>
                            THEN <<"No readings found for the specified range.">>
                            ELSE [i \in 1..Len(r.yielded) |-> Printed(r.yielded[i])]]

\* summary_command(args)
summary_command(file, io) ==
    LET l == _load(file, io)
    IN IF l.raised # "none"
       THEN [raised |-> l.raised, trace |-> LoadTrace(file), printed |-> <<>>]
       ELSE IF entries(l.entries).items = <<>>
       THEN [raised |-> "none", trace |-> LoadTrace(file),
             printed |-> <<"No readings recorded yet.">>]
       ELSE [raised |-> "none", trace |-> LoadTrace(file),
             printed |-> <<[total |-> Len(entries(l.entries).items),
                            common |-> most_common(card_frequency(l.entries), 3)]>>]

\* python tarot_ledger.py add --question .. --cards .. [--date ..]
AddCommand(args, today, io, w) ==
    /\ store.t = "array" => Len(store.items) < MaxEntries
    /\ LET r == add_command(store, args, today, io, w)
       IN /\ store' = r.file
          /\ raised' = r.raised
          /\ trace' = r.trace
          /\ ret' = [kind |-> "printed", lines |-> r.printed]
    /\ call' = [name |-> "add_command", args |-> args]
    /\ ledger' = "none"
    /\ _entries' = <<>>
    /\ snapshot' = NoSnapshot

\* python tarot_ledger.py list [--from ..] [--to ..]
ListCommand(args, io) ==
    /\ LET r == list_command(store, args, io)
       IN /\ raised' = r.raised
          /\ trace' = r.trace
          /\ ret' = [kind |-> "printed", lines |-> r.printed]
    /\ call' = [name |-> "list_command", args |-> args]
    /\ ledger' = "none"
    /\ _entries' = <<>>
    /\ snapshot' = NoSnapshot
    /\ UNCHANGED store

\* python tarot_ledger.py summary
SummaryCommand(io) ==
    /\ LET r == summary_command(store, io)
       IN /\ raised' = r.raised
          /\ trace' = r.trace
          /\ ret' = [kind |-> "printed", lines |-> r.printed]
    /\ call' = [name |-> "summary_command"]
    /\ ledger' = "none"
    /\ _entries' = <<>>
    /\ snapshot' = NoSnapshot
    /\ UNCHANGED store

\* ------------------------------------------------------------------------
\* Specification
\* ------------------------------------------------------------------------

\* The ledger object and its caller.
Next ==
    \/ \E io \in ReadOutcomes : Construct(io)
    \/ \E w \in WriteOutcomes : Save(w)
    \/ \E entry \in EntryPool, w \in WriteOutcomes : AddEntry(entry, w)
    \/ Entries
    \/ \E how \in Mutations : CallerMutates(how, Entry1)
    \/ \E start \in RangeBounds, end \in RangeBounds : EntriesInRange(start, end)
    \/ CardFrequency

Spec == Init /\ [][Next]_vars

\* The commands, run one after the other on the same store.
CommandInit ==
    /\ store \in CommandStores
    /\ ledger = "none"
    /\ _entries = <<>>
    /\ snapshot = NoSnapshot
    /\ call = [name |-> "start"]
    /\ raised = "none"
    /\ ret = NoRet
    /\ trace = <<>>

CommandNext ==
    \/ \E a \in AddArgs, d \in DateArgs, today \in Todays,
          io \in ReadOutcomes, w \in WriteOutcomes :
            AddCommand([date |-> d] @@ a, today, io, w)
    \/ \E f \in DateArgs, t \in DateArgs, io \in ReadOutcomes :
            ListCommand([date_from |-> f, date_to |-> t], io)
    \/ \E io \in ReadOutcomes : SummaryCommand(io)

CommandSpec == CommandInit /\ [][CommandNext]_vars

\* ------------------------------------------------------------------------
\* Properties
\* ------------------------------------------------------------------------

\* The entries of s with date string d, in the order of s.
WithDate(s, d) == LET Same(e) == e.date = d IN SelectSeq(s, Same)

\* s without its p-th element.
Without(s, p) == SubSeq(s, 1, p - 1) \o SubSeq(s, p + 1, Len(s))

DateStrings(s) == { s[i].date : i \in 1..Len(s) }

\* s is in ascending order of the sort key, the date string.
SortedByKey(s) ==
    \A i, j \in 1..Len(s) : i < j => ~StrLess(s[j].date, s[i].date)

\* s is in ascending order of the calendar dates its date strings denote,
\* as far as they denote one.
SortedByDate(s) ==
    \A i, j \in 1..Len(s) :
        (i < j /\ strptime(s[i].date) # NoDate /\ strptime(s[j].date) # NoDate)
            => ~DateLess(strptime(s[j].date), strptime(s[i].date))

\* C1: after every add_entry the entries are in non-decreasing order of
\* date, and the entries of one date are in the order in which they were
\* added: those that were there, in their order, then the new one.
C1_SortedByDateAfterAdd ==
    [][call'.name = "add_entry" =>
          /\ SortedByDate(_entries')
          /\ \A d \in DateStrings(_entries') :
                WithDate(_entries', d) =
                    WithDate(_entries, d)
                        \o (IF call'.entry.date = d THEN <<call'.entry>> ELSE <<>>)
      ]_vars

\* C2: after a save that returned (by save() or by add_entry), loading the
\* file gives the entries of the ledger, field for field and in order.
C2_SaveThenLoadRoundTrip ==
    (call.name \in {"save", "add_entry"} /\ raised = "none")
        => _load(store, "ok") = [raised |-> "none", entries |-> _entries]

\* A save returned for a ledger of two or more entries, one with notes, one
\* with cards.
C2_Witness ==
    /\ call.name \in {"save", "add_entry"}
    /\ raised = "none"
    /\ Len(_entries) >= 2
    /\ \E i \in 1..Len(_entries) : _entries[i].notes # ""
    /\ \E i \in 1..Len(_entries) : _entries[i].cards # <<>>
    /\ store.t = "array"

\* The entry is in the range: its date is not before start and not after
\* end, where these are given.
InRange(entry, start, end) ==
    /\ start = NoDate
         \/ (strptime(entry.date) # NoDate /\ ~DateLess(strptime(entry.date), start))
    /\ end = NoDate
         \/ (strptime(entry.date) # NoDate /\ ~DateLess(end, strptime(entry.date)))

\* C3: entries_in_range(start, end) gives, in ledger order, exactly the
\* entries in the range, both bounds inclusive; all of them when both bounds
\* are None.
C3_RangeIsTheFilter ==
    call.name = "entries_in_range"
        => LET Keep(e) == InRange(e, call.start, call.end)
           IN ret.items = SelectSeq(_entries, Keep)

\* The file holds a JSON array of records that each have "date" and
\* "question".
WellFormed(file) ==
    /\ file.t = "array"
    /\ \A i \in 1..Len(file.items) :
          /\ file.items[i].t = "object"
          /\ {"date", "question"} \subseteq DOMAIN file.items[i].m

\* C4: constructing a ledger on a file that exists and is not well formed
\* raises the load error (RuntimeError), and no ledger results.
C4_MalformedStoreRaisesLoadError ==
    (call.name = "TarotLedger" /\ store.t # "absent" /\ ~WellFormed(store))
        => (raised = "RuntimeError" /\ ledger = "none")

\* C5: when save raises in add_entry, the caller gets the OSError of the
\* write, and self._entries is what a successful add_entry leaves: one entry
\* longer, the new entry in it, in the order of the sort.
C5_FailedSaveKeepsTheAppend ==
    [][(call'.name = "add_entry" /\ raised' # "none") =>
          /\ raised' = "OSError"
          /\ Len(_entries') = Len(_entries) + 1
          /\ \E p \in 1..Len(_entries') :
                /\ _entries'[p] = call'.entry
                /\ \A d \in DateStrings(_entries) :
                      WithDate(Without(_entries', p), d) = WithDate(_entries, d)
          /\ SortedByKey(_entries')
          /\ _entries' = add_entry(_entries, store, call'.entry, "ok").entries
      ]_vars

\* add_entry raised, the new entry is the first of two or more, and the file
\* does not hold what the ledger holds.
C5_Witness ==
    /\ call.name = "add_entry"
    /\ raised = "OSError"
    /\ Len(_entries) >= 2
    /\ _entries[1] = call.entry
    /\ _load(store, "ok") # [raised |-> "none", entries |-> _entries]

\* C6: no entry of a ledger has a date that strptime does not accept.
C6_EveryDateParses ==
    ledger = "loaded"
        => \A i \in 1..Len(_entries) : strptime(_entries[i].date) # NoDate

\* The command was given a date that strptime does not accept.
MalformedDateArg ==
    \/ /\ call.name = "add_command"
       /\ call.args.date # <<>>
       /\ strptime(call.args.date) = NoDate
    \/ /\ call.name = "list_command"
       /\ \/ call.args.date_from # <<>> /\ strptime(call.args.date_from) = NoDate
          \/ call.args.date_to # <<>> /\ strptime(call.args.date_to) = NoDate

\* C7: a run of add or list with a malformed date builds no ledger and
\* neither reads nor writes the file, and ends with the format error.
C7_MalformedDateBeforeLedger ==
    MalformedDateArg
        => (trace = <<>> /\ raised \in {"ArgumentTypeError", "ValueError"})

\* The number of occurrences of card c in the cards of the entries of s.
Occurrences(s, c) ==
    Cardinality({ ij \in UNION { { <<i, j>> : j \in 1..Len(s[i].cards) } :
                                  i \in 1..Len(s) } :
                    s[ij[1]].cards[ij[2]] = c })

CardsOf(s) == UNION { { s[i].cards[j] : j \in 1..Len(s[i].cards) } : i \in 1..Len(s) }

\* C8: card_frequency() has a count for exactly the cards that occur, and
\* the count of a card is the number of its occurrences in all the entries,
\* "a" and "A" being different cards.
C8_CardFrequencyCounts ==
    call.name = "card_frequency"
        => /\ DOMAIN ret.counter.n = CardsOf(_entries)
           /\ \A c \in CardsOf(_entries) :
                 ret.counter.n[c] = Occurrences(_entries, c)

\* card_frequency() on the entries with cards A, B, A and A: A 3, B 1.
C8_Witness ==
    /\ call.name = "card_frequency"
    /\ Len(_entries) = 2
    /\ _entries[1].cards = <<CardA, CardB, CardA>>
    /\ _entries[2].cards = <<CardA>>
    /\ ret.counter.n = (CardA :> 3) @@ (CardB :> 1)

\* C9: entries() returns the entries in ledger order, and a change made to
\* the returned list changes neither self._entries nor the file, so neither
\* what entries(), entries_in_range and card_frequency give next nor what the
\* next save writes.
C9_EntriesIsASnapshot ==
    /\ [](call.name = "entries" => (ret.items = _entries /\ snapshot.items = _entries))
    /\ [][call'.name = "caller mutates" =>
            /\ _entries' = _entries
            /\ store' = store
            /\ entries(_entries').items = entries(_entries).items
            /\ card_frequency(_entries') = card_frequency(_entries)
            /\ \A start \in RangeBounds, end \in RangeBounds :
                  entries_in_range(_entries', start, end)
                      = entries_in_range(_entries, start, end)
            /\ save(_entries', store', "ok") = save(_entries, store, "ok")
       ]_vars

\* The caller changed the list it got for a ledger of two or more entries.
C9_Witness ==
    /\ call.name = "caller mutates"
    /\ Len(_entries) >= 2
    /\ snapshot.items # _entries

\* What add_entry(e) does to the list: one entry more, e at some place p,
\* and the others as before.  Entries of one date string keep their order;
\* when `always` holds or the list was in ascending order of date string, all
\* keep their order.
AddKeeps(old, new, e, always) ==
    /\ Len(new) = Len(old) + 1
    /\ \E p \in 1..Len(new) :
          /\ new[p] = e
          /\ \A d \in DateStrings(old) \cup DateStrings(Without(new, p)) :
                WithDate(Without(new, p), d) = WithDate(old, d)
          /\ (always \/ SortedByKey(old)) => Without(new, p) = old

\* save, the queries and a change to a returned list leave self._entries as
\* it is.
OthersKeep ==
    call'.name \in {"save", "entries", "entries_in_range", "card_frequency",
                    "caller mutates"}
        => _entries' = _entries

\* Every date string of s is a calendar date in the form YYYY-MM-DD.
CanonicalDates(s) ==
    \A i \in 1..Len(s) :
        /\ strptime(s[i].date) # NoDate
        /\ isoformat(strptime(s[i].date)) = s[i].date

\* C10 as stated, for ledgers whose dates are all canonical: every add_entry
\* makes the list one entry longer and keeps every other entry, with its
\* content and in the same relative order, also when an equal entry is
\* there; no other operation changes the list.
C10_AddKeepsOrderOfAll ==
    [][/\ (call'.name = "add_entry" /\ CanonicalDates(_entries'))
            => AddKeeps(_entries, _entries', call'.entry, TRUE)
       /\ OthersKeep
      ]_vars

\* C10, amended: every add_entry makes the list one entry longer and keeps
\* every other entry with its content, also when an equal entry is there;
\* entries of one date string keep their relative order, and all entries do
\* when the list was in ascending order of date string before the call; no
\* other operation changes the list.
C10_AddKeepsEveryEntry ==
    [][/\ call'.name = "add_entry" => AddKeeps(_entries, _entries', call'.entry, FALSE)
       /\ OthersKeep
      ]_vars

\* add_entry was given an entry equal to one of the ledger, and both are
\* there.
C10_Witness ==
    /\ call.name = "add_entry"
    /\ \E i, j \in 1..Len(_entries) :
          i # j /\ _entries[i] = call.entry /\ _entries[j] = call.entry

====
